---- MODULE Spec2Model ----
(***************************************************************************)
(* Financial QA Bot: the query-resolution pipeline of finqa_bot.           *)
(*   QAChain   (qa_chain.py)  cache, remote-disable flag, parser, formatter *)
(*   Retriever (retriever.py) column resolution and year filtering          *)
(*                                                                         *)
(* A query text is a sequence of tokens: a token is a run of characters    *)
(* of one class (a word, a four-digit number, a blank, a punctuation       *)
(* mark).  str.lower() and str.strip() act on the tokens as they act on    *)
(* the characters.  Answers are the strings the program builds.            *)
(*                                                                         *)
(*   FinancialQABot (app.py)  ask and ask_batch                            *)
(*                                                                         *)
(* Spec    sequences of generate_answer calls on one QAChain.              *)
(* Methods one call of _parse_query, find_column, get_value,               *)
(*         filter_by_year, _format_answer, _generate_rule_based_answer,    *)
(*         _generate_openrouter_answer or generate_answer on its own.      *)
(* Batch   one ask_batch call of a FinancialQABot.                         *)
(* Threads two threads each calling generate_answer on one QAChain.        *)
(***************************************************************************)
EXTENDS Integers, Sequences, FiniteSets, TLC

VARIABLES
    data,                 \* Retriever.data: the loaded table (read-only)
    use_llm,              \* QAChain.use_llm
    openrouter_api_key,   \* QAChain.openrouter_api_key ("None" is Python's None)
    cache,                \* QAChain._cache: normalized key -> answer text
    llm_disabled,         \* QAChain._llm_disabled
    remote_calls,         \* history: requests.post calls made, per normalized text
    returned,             \* history: texts returned so far, per normalized text
    got429,               \* history: some request was answered with status 429
    last,                 \* history: what the latest generate_answer call did
    args,                 \* the arguments of a method called on its own
    ret,                  \* what that call returned or raised
    batch,                \* FinancialQABot: qa_chain set, ask_batch's progress
    threads               \* threads inside generate_answer: position, locals

vars == <<data, use_llm, openrouter_api_key, cache, llm_disabled,
          remote_calls, returned, got429, last, args, ret, batch, threads>>

-----------------------------------------------------------------------------
(* Text: tokens, lower(), strip(), substring tests                          *)

None == "None"
NoYear == 0

\* The blank token (whitespace, removed by strip at both ends).
Blank == " "

\* Tokens whose characters are all word characters (\w: letters, digits, _).
WordTokens ==
    {"revenue", "Revenue", "REVENUE", "sales", "profit", "Profit", "net",
     "income", "expenses", "assets", "best", "highest", "lowest", "hello",
     "2019", "2020", "2021", "1999", "x", "_"}

\* Tokens matching 20\d{2} (four digits, the first two being 2 and 0).
YearTokens == {"2019", "2020", "2021"}

\* int() of a year token.
YearValue(t) ==
    CASE t = "2019" -> 2019
      [] t = "2020" -> 2020
      [] t = "2021" -> 2021
      [] OTHER -> NoYear

\* str.lower() of one token or name: upper-case letters become lower-case,
\* every other character is kept.
lower(s) ==
    CASE s = "Revenue" -> "revenue"
      [] s = "REVENUE" -> "revenue"
      [] s = "Profit" -> "profit"
      [] s = "Year" -> "year"
      [] s = "DATE" -> "date"
      [] s = "Date" -> "date"
      [] s = "Period" -> "period"
      [] s = "Net_Income" -> "net_income"
      [] s = "Income" -> "income"
      [] s = "Operating_Expenses" -> "operating_expenses"
      [] s = "Total_Assets" -> "total_assets"
      [] s = "Incomes" -> "incomes"
      [] s = "Sales" -> "sales"
      [] s = "LOWEST" -> "lowest"
      [] OTHER -> s

\* query.lower(): token by token.
lowerText(q) == [i \in 1..Len(q) |-> lower(q[i])]

\* query.strip(): leading and trailing whitespace removed.
RECURSIVE lstrip(_)
lstrip(q) ==
    IF q # <<>> /\ Head(q) = Blank THEN lstrip(Tail(q)) ELSE q

RECURSIVE rstrip(_)
rstrip(q) ==
    IF q # <<>> /\ q[Len(q)] = Blank
    THEN rstrip(SubSeq(q, 1, Len(q) - 1))
    ELSE q

strip(q) == rstrip(lstrip(q))

\* The keywords (lower-case) a lower-case token contains as a substring.
Contained(t) ==
    CASE t = "expenses" -> {"expenses", "expense"}
      [] t = "assets" -> {"assets", "asset"}
      [] t = "topline" -> {"topline", "top"}
      [] OTHER -> {t}

\* Python's  kw in text  for a keyword given as a token sequence.
InText(kw, text) ==
    \E i \in 1..(Len(text) - Len(kw) + 1) :
        \A j \in 1..Len(kw) : kw[j] \in Contained(text[i + j - 1])

AnyIn(kws, text) == \E kw \in kws : InText(kw, text)

-----------------------------------------------------------------------------
(* QAChain._parse_query                                                     *)

\* re.search(r'\b(20\d{2})\b', query): position of the leftmost year token
\* that has a word boundary on both sides, 0 when there is none.
\* Variant: the pattern without the two \b.
YearMatchAt_no_boundary(q, i) == q[i] \in YearTokens

YearMatchAt(q, i) ==
    /\ q[i] \in YearTokens
    /\ (i = 1 \/ q[i - 1] \notin WordTokens)
    /\ (i = Len(q) \/ q[i + 1] \notin WordTokens)

year_match(q) ==
    LET matches == {i \in 1..Len(q) : YearMatchAt(q, i)} IN
    IF matches = {} THEN {}
    ELSE {CHOOSE i \in matches : \A j \in matches : i <= j}

\* year = int(year_match.group(1)) if year_match else None
year_of(q, match) ==
    IF match = {} THEN NoYear ELSE YearValue(q[CHOOSE i \in match : TRUE])

parse_year(q) == year_of(q, year_match(q))

\* Variant: the asset rule is tried before the net-income rule.
metric_of_assets_first(query_lower) ==
    IF AnyIn({<<"revenue">>, <<"sales">>}, query_lower) THEN "Revenue"
    ELSE IF AnyIn({<<"asset">>, <<"total", Blank, "asset">>}, query_lower)
         THEN "Total_Assets"
    ELSE IF AnyIn({<<"net", Blank, "income">>, <<"net", Blank, "profit">>,
                   <<"profit">>}, query_lower) THEN "Net_Income"
    ELSE IF AnyIn({<<"expense">>, <<"operating", Blank, "expense">>},
                  query_lower) THEN "Operating_Expenses"
    ELSE None

\* The if/elif chain over query.lower(): the first rule that matches wins.
metric_of(query_lower) ==
    IF AnyIn({<<"revenue">>, <<"sales">>}, query_lower) THEN "Revenue"
    ELSE IF AnyIn({<<"net", Blank, "income">>, <<"net", Blank, "profit">>,
                   <<"profit">>}, query_lower) THEN "Net_Income"
    ELSE IF AnyIn({<<"expense">>, <<"operating", Blank, "expense">>},
                  query_lower) THEN "Operating_Expenses"
    ELSE IF AnyIn({<<"asset">>, <<"total", Blank, "asset">>}, query_lower)
         THEN "Total_Assets"
    ELSE None

parse_metric(q) == metric_of(lowerText(q))

parse_query(q) == [metric |-> parse_metric(q), year |-> parse_year(q)]

-----------------------------------------------------------------------------
(* The table (DataIndexer.data) and the Retriever                           *)

\* A table: column names in order, the dtype of each column, rows in order.
\* Each row holds one number per column.
IndexOf(seq, x) == CHOOSE i \in 1..Len(seq) : seq[i] = x

HasColumn(d, c) == \E i \in 1..Len(d.cols) : d.cols[i] = c

\* data[c]: the values of column c in row order.
Column(d, c) == [r \in 1..Len(d.rows) |-> d.rows[r][IndexOf(d.cols, c)]]

DType(d, c) == d.dtype[IndexOf(d.cols, c)]

\* DataIndexer.get_columns
get_columns(d) == d.cols

\* difflib.SequenceMatcher(None, col, keyword).ratio() in thousandths, for the
\* column names and keywords that occur here (difflib is not part of the
\* repository; the numbers are the ones it computes).
Ratio(col, keyword) ==
    CASE col = keyword -> 1000
      [] col = "Year" /\ keyword = "Revenue" -> 182
      [] col = "Net_Income" /\ keyword = "Revenue" -> 353
      [] col = "Period" /\ keyword = "Revenue" -> 154
      [] col = "Income" /\ keyword = "Revenue" -> 308
      [] col = "REVENUE" /\ keyword = "Revenue" -> 143
      [] col = "Year" /\ keyword = "Net_Income" -> 143
      [] col = "Revenue" /\ keyword = "Net_Income" -> 235
      [] col = "Period" /\ keyword = "Net_Income" -> 250
      [] col = "Income" /\ keyword = "Net_Income" -> 750
      [] col = "REVENUE" /\ keyword = "Net_Income" -> 118
      [] col = "Year" /\ keyword = "Operating_Expenses" -> 182
      [] col = "Revenue" /\ keyword = "Operating_Expenses" -> 320
      [] col = "Net_Income" /\ keyword = "Operating_Expenses" -> 357
      [] col = "Period" /\ keyword = "Operating_Expenses" -> 250
      [] col = "Income" /\ keyword = "Operating_Expenses" -> 167
      [] col = "REVENUE" /\ keyword = "Operating_Expenses" -> 80
      [] col = "Year" /\ keyword = "Total_Assets" -> 125
      [] col = "Revenue" /\ keyword = "Total_Assets" -> 105
      [] col = "Net_Income" /\ keyword = "Total_Assets" -> 182
      [] col = "Period" /\ keyword = "Total_Assets" -> 111
      [] col = "Income" /\ keyword = "Total_Assets" -> 222
      [] col = "REVENUE" /\ keyword = "Total_Assets" -> 0
      [] col = "Year" /\ keyword = "net income" -> 143
      [] col = "Revenue" /\ keyword = "net income" -> 235
      [] col = "Net_Income" /\ keyword = "net income" -> 700
      [] col = "Period" /\ keyword = "net income" -> 375
      [] col = "Income" /\ keyword = "net income" -> 625
      [] col = "REVENUE" /\ keyword = "net income" -> 0
      [] col = "Year" /\ keyword = "revenue" -> 182
      [] col = "Revenue" /\ keyword = "revenue" -> 857
      [] col = "Net_Income" /\ keyword = "revenue" -> 353
      [] col = "Period" /\ keyword = "revenue" -> 154
      [] col = "Income" /\ keyword = "revenue" -> 308
      [] col = "REVENUE" /\ keyword = "revenue" -> 0
      [] col = "Year" /\ keyword = "Incomes" -> 182
      [] col = "Revenue" /\ keyword = "Incomes" -> 143
      [] col = "Net_Income" /\ keyword = "Incomes" -> 706
      [] col = "Period" /\ keyword = "Incomes" -> 154
      [] col = "Income" /\ keyword = "Incomes" -> 923
      [] col = "REVENUE" /\ keyword = "Incomes" -> 0
      [] col = "Year" /\ keyword = "Sales" -> 222
      [] col = "Revenue" /\ keyword = "Sales" -> 167
      [] col = "Net_Income" /\ keyword = "Sales" -> 133
      [] col = "Period" /\ keyword = "Sales" -> 182
      [] col = "Income" /\ keyword = "Sales" -> 182
      [] col = "REVENUE" /\ keyword = "Sales" -> 0
      [] col = "Date" /\ keyword = "Revenue" -> 182
      [] col = "Date" /\ keyword = "Net_Income" -> 286
      [] col = "Date" /\ keyword = "Operating_Expenses" -> 273
      [] col = "Date" /\ keyword = "Total_Assets" -> 250
      [] col = "Date" /\ keyword = "net income" -> 286
      [] col = "Date" /\ keyword = "revenue" -> 182
      [] col = "Date" /\ keyword = "Incomes" -> 182
      [] col = "Date" /\ keyword = "Sales" -> 444
      [] col = "DATE" /\ keyword = "Revenue" -> 0
      [] col = "DATE" /\ keyword = "Net_Income" -> 0
      [] col = "DATE" /\ keyword = "Operating_Expenses" -> 91
      [] col = "DATE" /\ keyword = "Total_Assets" -> 125
      [] col = "DATE" /\ keyword = "net income" -> 0
      [] col = "DATE" /\ keyword = "revenue" -> 0
      [] col = "DATE" /\ keyword = "Incomes" -> 0
      [] col = "DATE" /\ keyword = "Sales" -> 0
      [] col = "year" /\ keyword = "Revenue" -> 182
      [] col = "year" /\ keyword = "Net_Income" -> 143
      [] col = "year" /\ keyword = "Operating_Expenses" -> 182
      [] col = "year" /\ keyword = "Total_Assets" -> 125
      [] col = "year" /\ keyword = "net income" -> 143
      [] col = "year" /\ keyword = "revenue" -> 182
      [] col = "year" /\ keyword = "Incomes" -> 182
      [] col = "year" /\ keyword = "Sales" -> 222
      [] OTHER -> 0

\* get_close_matches(keyword, columns, n=1, cutoff=0.6)
Cutoff == 600

\* Column names in Python's string order (nlargest compares (score, name)
\* pairs, so of two names with the same score the greater one wins).
NameOrder == <<"DATE", "Date", "Income", "Net_Income", "Period", "REVENUE",
               "Revenue", "Year", "year">>

NameRank(name) == CHOOSE i \in 1..Len(NameOrder) : NameOrder[i] = name

\* (score, name) of column i is at least that of column j.
Outranks(columns, keyword, i, j) ==
    \/ Ratio(columns[j], keyword) < Ratio(columns[i], keyword)
    \/ /\ Ratio(columns[j], keyword) = Ratio(columns[i], keyword)
       /\ NameRank(columns[j]) <= NameRank(columns[i])

\* Variant: the best-scoring column is returned whatever its score.
close_match_any(keyword, columns) ==
    columns[CHOOSE i \in 1..Len(columns) :
                \A j \in 1..Len(columns) : Outranks(columns, keyword, i, j)]

close_match(keyword, columns) ==
    LET ok == {i \in 1..Len(columns) : Ratio(columns[i], keyword) >= Cutoff} IN
    IF ok = {} THEN None
    ELSE columns[CHOOSE i \in ok :
                    \A j \in ok : Outranks(columns, keyword, i, j)]

\* Retriever.find_column
find_column(d, keyword) ==
    LET columns == get_columns(d)
        exact == {i \in 1..Len(columns) : lower(columns[i]) = lower(keyword)}
    IN  IF exact # {}
        THEN columns[CHOOSE i \in exact : \A j \in exact : i <= j]
        ELSE close_match(keyword, columns)

\* The candidate names of the temporal column, in the order they are tried.
YearColumns == <<"Year", "year", "DATE", "Date">>

\* Variant: the first column of the dataset that is a candidate name.
year_col_by_position(d) ==
    LET found == {i \in 1..Len(d.cols) :
                     \E k \in 1..Len(YearColumns) : d.cols[i] = YearColumns[k]}
    IN  IF found = {} THEN None
        ELSE d.cols[CHOOSE i \in found : \A j \in found : i <= j]

year_col(d) ==
    LET found == {i \in 1..Len(YearColumns) : HasColumn(d, YearColumns[i])} IN
    IF found = {} THEN None
    ELSE YearColumns[CHOOSE i \in found : \A j \in found : i <= j]

\* Retriever.filter_by_year: the indices of the rows of that year, in row
\* order; raises ValueError when there is no temporal column.
\* Variant: a missing temporal column filters to no rows instead of raising.
filter_rows_no_raise(d, col, year) ==
    [exc |-> "none",
     rows |-> IF col = None THEN <<>>
              ELSE SelectSeq([r \in 1..Len(d.rows) |-> r],
                             LAMBDA r : d.rows[r][IndexOf(d.cols, col)] = year)]

filter_rows(d, col, year) ==
    IF col = None
    THEN [exc |-> "ValueError", rows |-> <<>>]
    ELSE [exc |-> "none",
          rows |-> SelectSeq([r \in 1..Len(d.rows) |-> r],
                             LAMBDA r : d.rows[r][IndexOf(d.cols, col)] = year)]

filter_by_year(d, year) == filter_rows(d, year_col(d), year)

\* Retriever.get_value.  tag: "None", "scalar" (v), "Series" (vals, in row
\* order) or "ValueError" (raised by filter_by_year).
NoValue(tag) == [tag |-> tag, v |-> 0, vals |-> <<>>, dtype |-> "none"]

Series(vals, dtype) == [tag |-> "Series", v |-> 0, vals |-> vals, dtype |-> dtype]
Scalar(v, dtype) == [tag |-> "scalar", v |-> v, vals |-> <<>>, dtype |-> dtype]

\* Variant: the first matching cell is returned however many rows match.
result_value_first(result, dtype) == Scalar(result[1], dtype)

\* get_value from "result = filtered_data[column]" on: result holds the
\* column's values of the filtered rows.
result_value(result, dtype) ==
    IF Len(result) = 1 THEN Scalar(result[1], dtype) ELSE Series(result, dtype)

\* get_value from "filtered_data = self.filter_by_year(year)" on.
filtered_value(filtered, colvals, dtype) ==
    IF filtered.exc # "none" THEN NoValue("ValueError")
    ELSE IF filtered.rows = <<>> THEN NoValue("None")
    ELSE result_value([k \in 1..Len(filtered.rows) |-> colvals[filtered.rows[k]]],
                      dtype)

\* Variant: the year filter is applied before the column is looked at.
column_value_filter_first(d, column, year) ==
    IF year # NoYear /\ filter_by_year(d, year).exc # "none"
    THEN NoValue("ValueError")
    ELSE IF column = None THEN NoValue("None")
    ELSE IF year = NoYear THEN Series(Column(d, column), DType(d, column))
    ELSE filtered_value(filter_by_year(d, year), Column(d, column),
                        DType(d, column))

\* get_value once the column is resolved.
column_value(d, column, year) ==
    IF column = None THEN NoValue("None")
    ELSE IF year = NoYear THEN Series(Column(d, column), DType(d, column))
    ELSE filtered_value(filter_by_year(d, year), Column(d, column),
                        DType(d, column))

get_value(d, column_keyword, year) ==
    column_value(d, find_column(d, column_keyword), year)

-----------------------------------------------------------------------------
(* Number formatting                                                        *)

Abs(n) == IF n < 0 THEN 0 - n ELSE n

Pad3(n) ==
    IF n < 10 THEN "00" \o ToString(n)
    ELSE IF n < 100 THEN "0" \o ToString(n)
    ELSE ToString(n)

\* The digits of n >= 0 with a comma between groups of three.
RECURSIVE Grouped(_)
Grouped(n) ==
    IF n < 1000 THEN ToString(n)
    ELSE Grouped(n \div 1000) \o "," \o Pad3(n % 1000)

Signed(n, digits) == IF n < 0 THEN "-" \o digits ELSE digits

\* f"${value:,.0f}" for a whole number held in either dtype.
Money0(v) == "$" \o Signed(v, Grouped(Abs(v)))

\* f"${value:,}": an int64 has no decimals, a float64 keeps its ".0".
Money(v, dtype) ==
    "$" \o Signed(v, Grouped(Abs(v))) \o (IF dtype = "float64" THEN ".0" ELSE "")

\* str(value) of a numpy scalar.
Str(v, dtype) ==
    Signed(v, ToString(Abs(v))) \o (IF dtype = "float64" THEN ".0" ELSE "")

\* f"{abs(pct_change):.1f}" where pct_change = (last - first) / first * 100:
\* the magnitude rounded to tenths (ties to even).
PctTenths(first_val, last_val) ==
    IF first_val = 0 THEN 0
    ELSE LET num == Abs(last_val - first_val) * 1000
             den == Abs(first_val)
             fl == num \div den
             twice == 2 * (num % den)
         IN  IF twice > den \/ (twice = den /\ fl % 2 = 1) THEN fl + 1 ELSE fl

PctText(t) == ToString(t \div 10) \o "." \o ToString(t % 10)

\* pct_change > 0
PctPositive(first_val, last_val) ==
    /\ first_val # 0
    /\ \/ (last_val > first_val /\ first_val > 0)
       \/ (last_val < first_val /\ first_val < 0)

\* metric.replace('_', ' ')
metric_display(metric) ==
    CASE metric = "Net_Income" -> "Net Income"
      [] metric = "Operating_Expenses" -> "Operating Expenses"
      [] metric = "Total_Assets" -> "Total Assets"
      [] OTHER -> metric

\* sep.join(parts)
RECURSIVE Join(_, _)
Join(sep, parts) ==
    IF parts = <<>> THEN ""
    ELSE IF Len(parts) = 1 THEN parts[1]
    ELSE parts[1] \o sep \o Join(sep, Tail(parts))

SeqMax(vals) == CHOOSE m \in {vals[i] : i \in 1..Len(vals)} :
                    \A i \in 1..Len(vals) : vals[i] <= m

SeqMin(vals) == CHOOSE m \in {vals[i] : i \in 1..Len(vals)} :
                    \A i \in 1..Len(vals) : m <= vals[i]

\* The last n items of a sequence (Series.tail).
TailN(seq, n) ==
    IF Len(seq) <= n THEN seq ELSE SubSeq(seq, Len(seq) - n + 1, Len(seq))

-----------------------------------------------------------------------------
(* QAChain._format_answer                                                   *)

BestWords == {<<"best">>, <<"highest">>, <<"maximum">>, <<"peak">>,
              <<"most">>, <<"top">>}
WorstWords == {<<"worst">>, <<"lowest">>, <<"minimum">>, <<"least">>,
               <<"bottom">>}

Returned(text) == [exc |-> "none", text |-> text]
Raised(exc) == [exc |-> exc, text |-> ""]

TailRows == 5

\* The Series branch.  The index is the table's first column, all rows of
\* it; pd.Series(values, index) raises ValueError when the lengths differ.
\* An index label is shown by str(): idx_dtype is the first column's dtype.
\* The index labels of the rows whose value equals m, comma-joined.
keys_with(vals, idx, idx_dtype, m) ==
    Join(", ", SelectSeq([i \in 1..Len(vals) |->
                            IF vals[i] = m THEN Str(idx[i], idx_dtype) ELSE ""],
                         LAMBDA t : t # ""))

\* "The best|worst year(s) for <metric> was <keys> with $<value>."
extreme_answer(word, display, keys, m) ==
    Returned("The " \o word \o " year(s) for " \o display \o " was "
             \o keys \o " with " \o Money0(m) \o ".")

\* The default trend summary.
trend_answer(display, vals, idx, idx_dtype, first_val, last_val) ==
    Returned(display \o " "
             \o (IF PctPositive(first_val, last_val)
                 THEN "increased" ELSE "decreased")
             \o " by " \o PctText(PctTenths(first_val, last_val)) \o "% from "
             \o Money0(first_val) \o " to " \o Money0(last_val) \o ".\n"
             \o "      Recent values:\n      "
             \o Join("\n      ",
                     TailN([i \in 1..Len(vals) |->
                              Str(idx[i], idx_dtype) \o ": " \o Money0(vals[i])],
                           TailRows)))

\* Variant: the worst-keyword test comes first.
series_answer_worst_first(display, vals, idx, idx_dtype, query_lower) ==
    IF AnyIn(WorstWords, query_lower)
    THEN extreme_answer("worst", display,
                        keys_with(vals, idx, idx_dtype, SeqMin(vals)),
                        SeqMin(vals))
    ELSE IF AnyIn(BestWords, query_lower)
    THEN extreme_answer("best", display,
                        keys_with(vals, idx, idx_dtype, SeqMax(vals)),
                        SeqMax(vals))
    ELSE trend_answer(display, vals, idx, idx_dtype, vals[1], vals[Len(vals)])

\* The branches on the lower-cased query, for a Series whose index is built.
series_answer(display, vals, idx, idx_dtype, query_lower) ==
    IF AnyIn(BestWords, query_lower)
    THEN extreme_answer("best", display,
                        keys_with(vals, idx, idx_dtype, SeqMax(vals)),
                        SeqMax(vals))
    ELSE IF AnyIn(WorstWords, query_lower)
    THEN extreme_answer("worst", display,
                        keys_with(vals, idx, idx_dtype, SeqMin(vals)),
                        SeqMin(vals))
    ELSE trend_answer(display, vals, idx, idx_dtype, vals[1], vals[Len(vals)])

\* pd.Series(value.values, index=year_col_data.values) and what follows.
indexed_answer(display, vals, year_col_data, idx_dtype, query_lower) ==
    IF Len(vals) = 0
    THEN Returned("No data available for " \o display \o ".")
    ELSE IF Len(vals) # Len(year_col_data) THEN Raised("ValueError")
    ELSE series_answer(display, vals, year_col_data, idx_dtype, query_lower)

format_series(d, metric, value, q) ==
    indexed_answer(metric_display(metric), value.vals,
                   Column(d, get_columns(d)[1]), DType(d, get_columns(d)[1]),
                   lowerText(q))

\* isinstance(value, (int, float)): a numpy float64 is a Python float, a
\* numpy int64 is not a Python int.
IsIntOrFloat(value) == value.dtype = "float64"

\* The branches below the Series branch.
format_single(display, value, year) ==
    IF IsIntOrFloat(value)
    THEN IF year # NoYear
         THEN Returned("The " \o display \o " in " \o ToString(year) \o " was "
                       \o Money0(value.v) \o ".")
         ELSE Returned("The " \o display \o " is " \o Money0(value.v) \o ".")
    ELSE Returned("The " \o display \o " is " \o Str(value.v, value.dtype)
                  \o ".")

format_answer(d, metric, value, year, q) ==
    IF value.tag = "Series" THEN format_series(d, metric, value, q)
    ELSE format_single(metric_display(metric), value, year)

-----------------------------------------------------------------------------
(* QAChain._generate_rule_based_answer                                      *)

Guidance ==
    "I couldn't understand what metric you're asking about. Try asking about revenue, net income, expenses, or assets."

\* Variant: the not-found sentence leaves the year out.
answer_value_no_year(d, metric, year, value, q) ==
    IF value.tag = "ValueError" THEN Raised("ValueError")
    ELSE IF value.tag = "None"
    THEN Returned("I couldn't find data for " \o metric \o ".")
    ELSE format_answer(d, metric, value, year, q)

\* From "if value is None" on.
answer_value(d, metric, year, value, q) ==
    IF value.tag = "ValueError" THEN Raised("ValueError")
    ELSE IF value.tag = "None"
    THEN Returned("I couldn't find data for " \o metric
                  \o (IF year # NoYear THEN " in " \o ToString(year) ELSE "")
                  \o ".")
    ELSE format_answer(d, metric, value, year, q)

\* Variant: no test of the metric; find_column(None) raises AttributeError.
answer_parsed_unguarded(d, metric, year, q) ==
    IF metric = None THEN Raised("AttributeError")
    ELSE answer_value(d, metric, year, get_value(d, metric, year), q)

\* From "if not metric" on.
answer_parsed(d, metric, year, q) ==
    IF metric = None THEN Returned(Guidance)
    ELSE answer_value(d, metric, year, get_value(d, metric, year), q)

generate_rule_based_answer(d, q) ==
    answer_parsed(d, parse_metric(q), parse_year(q), q)

-----------------------------------------------------------------------------
(* QAChain._generate_openrouter_answer                                      *)

\* The years the context loop asks for when the query names no year.
ContextYears == <<2023, 2022, 2021, 2020, 2019>>

NoData == "No specific data found for this query."

\* One "metric in year: $value" line.  Formatting a Series with ":," raises
\* TypeError; filter_by_year's ValueError passes through.
line_of(metric, y, value) ==
    IF value.tag = "ValueError" THEN Raised("ValueError")
    ELSE IF value.tag = "None" THEN Returned("")
    ELSE IF value.tag = "Series" THEN Raised("TypeError")
    ELSE Returned(metric \o " in " \o ToString(y) \o ": "
                  \o Money(value.v, value.dtype))

context_line(d, metric, y) == line_of(metric, y, get_value(d, metric, y))

\* The loop over the context years, each line followed by a newline.
append_line(line, rest) ==
    IF line.exc # "none" THEN line
    ELSE IF rest.exc # "none" THEN rest
    ELSE Returned((IF line.text = "" THEN "" ELSE line.text \o "\n")
                  \o rest.text)

RECURSIVE context_lines(_, _, _)
context_lines(d, metric, years) ==
    IF years = <<>> THEN Returned("")
    ELSE append_line(context_line(d, metric, Head(years)),
                     context_lines(d, metric, Tail(years)))

\* if not data_context: data_context = "No specific data found ..."
or_no_data(ctx) ==
    IF ctx.exc = "none" /\ ctx.text = "" THEN Returned(NoData) ELSE ctx

context_parsed(d, metric, year) ==
    IF metric # None /\ year # NoYear THEN context_line(d, metric, year)
    ELSE IF metric # None THEN context_lines(d, metric, ContextYears)
    ELSE Returned("")

data_context(d, q) ==
    or_no_data(context_parsed(d, parse_metric(q), parse_year(q)))

\* What the remote service does with one request.
NumReplies == 2

Replies == {"remote reply " \o ToString(i) : i \in 1..NumReplies}

NoResponse == 0
RateLimitStatus == 429

Outcomes ==
    [kind : {"reply"}, status : {200}, text : Replies]
        \cup [kind : {"status"}, status : {RateLimitStatus, 500}, text : {""}]
        \cup [kind : {"timeout", "transport", "malformed"},
              status : {NoResponse}, text : {""}]

\* Result of the remote path: exc is "none" or the exception raised,
\* response the status code of the exception's response attribute
\* (NoResponse when it has none), issued whether requests.post was called.
post_request(ctx, outcome) ==
    IF ctx.exc # "none"
    THEN [exc |-> ctx.exc, response |-> NoResponse, text |-> "",
          issued |-> FALSE, context |-> ""]
    ELSE IF outcome.kind = "reply"
    THEN [exc |-> "none", response |-> NoResponse, text |-> outcome.text,
          issued |-> TRUE, context |-> ctx.text]
    ELSE IF outcome.kind = "status"
    THEN [exc |-> "HTTPError", response |-> outcome.status, text |-> "",
          issued |-> TRUE, context |-> ctx.text]
    ELSE [exc |-> outcome.kind, response |-> NoResponse, text |-> "",
          issued |-> TRUE, context |-> ctx.text]

generate_openrouter_answer(d, q, outcome) ==
    post_request(data_context(d, q), outcome)

-----------------------------------------------------------------------------
(* Sample tables and query texts                                            *)

\* Distinct years, one row each; 2021 has no row.
DataUnique ==
    [cols |-> <<"Year", "Revenue", "Net_Income">>,
     dtype |-> <<"int64", "int64", "float64">>,
     rows |-> << <<2019, 100000, 10000>>, <<2020, 200000, 30000>>,
                 <<2022, 150000, 20000>> >>]

\* The year 2020 is held by two rows.
DataDup ==
    [cols |-> <<"Year", "Revenue", "Net_Income">>,
     dtype |-> <<"int64", "float64", "int64">>,
     rows |-> << <<2020, 100000, 10000>>, <<2020, 120000, 5000>>,
                 <<2021, 90000, 7000>> >>]

\* None of Year, year, DATE, Date is a column.
DataNoTemporal ==
    [cols |-> <<"Period", "Revenue", "Income">>,
     dtype |-> <<"int64", "int64", "int64">>,
     rows |-> << <<2020, 100000, 10000>>, <<2021, 200000, 30000>> >>]

Datasets == {DataUnique, DataDup, DataNoTemporal}

Queries ==
    { <<"revenue", Blank, "2020">>,
      <<Blank, "REVENUE", Blank, "2020", Blank>>,
      <<"Profit">>,
      <<"profit", Blank>>,
      <<"hello">>,
      <<"Revenue", Blank, "2021">> }

-----------------------------------------------------------------------------
(* QAChain: construction and generate_answer                                *)

\* Python truthiness of the credential: None and "" are false.
Truthy(s) == s # None /\ s # ""

\* openrouter_api_key or os.getenv("OPENROUTER_API_KEY"): the constructor
\* argument and the environment variable may each be absent, empty or set.
KeyArgs == {None, "", "sk-or-key"}
EnvKeys == {None, "", "sk-or-key"}
KeyOr(arg, env) == IF Truthy(arg) THEN arg ELSE env

\* Variant: the key is trimmed but not case-folded.
cache_key_no_lower(q) == strip(q)

\* Variant: the key is the first word of the trimmed, case-folded text.
cache_key_first_word(q) ==
    IF strip(q) = <<>> THEN <<>> ELSE <<Head(lowerText(strip(q)))>>

\* Variant: the key is case-folded but not trimmed.
cache_key_untrimmed(q) == lowerText(q)

\* cache_key = query.strip().lower()
cache_key(q) == lowerText(strip(q))

\* Variant: the cache is never consulted.
cache_hit_never(c, key) == FALSE

\* if cache_key in self._cache
cache_hit(c, key) == key \in DOMAIN c

\* Variant: the disabled flag is not tested.
remote_enabled_ignoring_flag(use, disabled, key) == use /\ Truthy(key)

\* Variant: the credential is not tested.
remote_enabled_without_key(use, disabled, key) == use /\ ~disabled

\* self.use_llm and not self._llm_disabled and self.openrouter_api_key
remote_enabled(use, disabled, key) == use /\ ~disabled /\ Truthy(key)

\* Variant: the status compared with is 500.
is_rate_limit_500(e) == e.response # NoResponse /\ e.response = 500

\* Variant: any exception that carries a response counts.
is_rate_limit_any_response(e) == e.response # NoResponse

\* Variant: every exception counts.
is_rate_limit_any_error(e) == TRUE

\* Variant: no exception counts as a rate limit.
is_rate_limit_never(e) == FALSE

\* resp is not None and resp.status_code == 429
is_rate_limit(e) == e.response # NoResponse /\ e.response = RateLimitStatus

\* Variant: the answer is not stored.
cache_put_dropped(c, key, answer) == c

\* self._cache[cache_key] = answer
cache_put(c, key, answer) ==
    [k \in DOMAIN c \cup {key} |-> IF k = key THEN answer ELSE c[k]]

\* The pure parts of a call, tabulated once per table, query text and
\* outcome (@@ turns each into an explicit table).
RuleBasedOf ==
    [x \in Datasets \X Queries |-> generate_rule_based_answer(x[1], x[2])]
        @@ <<>>

RemoteOf ==
    [x \in Datasets \X Queries \X Outcomes |->
        generate_openrouter_answer(x[1], x[2], x[3])] @@ <<>>

KeyOf == [q \in Queries |-> cache_key(q)] @@ <<>>

\* The trimmed, case-folded form of a query text, by which the history
\* variables are indexed.
Normalized(q) == lowerText(strip(q))

\* Query texts for generate_answer called once on a fresh QAChain.
AskTexts ==
    { <<"assets", Blank, "2020">>,
      <<"assets">>,
      <<"revenue", Blank, "2020">> }

Texts == {Normalized(q) : q \in Queries \cup AskTexts}

NormOf == [q \in Queries \cup AskTexts |-> Normalized(q)] @@ <<>>

NoCall ==
    [q |-> <<>>, hit |-> FALSE, tried |-> FALSE, issued |-> FALSE,
     remote |-> "none", status |-> NoResponse, reply |-> "",
     result |-> "init", text |-> "", was_disabled |-> FALSE,
     after429 |-> FALSE, repeat |-> FALSE, after_failure |-> FALSE]

\* The latest call sent a request that failed otherwise than with a 429.
OtherFailure(call) ==
    call.issued /\ call.remote # "reply" /\ call.status # RateLimitStatus

\* No method has been called on its own.
NoArgs ==
    [op |-> "none", q |-> <<>>, keyword |-> "", metric |-> "",
     year |-> NoYear, value |-> NoValue("None")]

NoResult ==
    [done |-> FALSE, parsed |-> [metric |-> None, year |-> NoYear],
     column |-> None, value |-> NoValue("None"), answer |-> Returned(""),
     filtered |-> [exc |-> "none", rows |-> <<>>],
     remote |-> [exc |-> "none", response |-> NoResponse, text |-> "",
                 issued |-> FALSE, context |-> ""]]

\* No ask_batch call is in progress.
NoBatch == [loaded |-> TRUE, questions |-> <<>>, results |-> <<>>]

\* No thread is inside generate_answer.
NoThreads == [use_lock |-> FALSE, owner |-> "nobody", th |-> <<>>]

Init ==
    /\ data \in Datasets
    /\ use_llm \in BOOLEAN
    /\ openrouter_api_key \in {KeyOr(a, e) : a \in KeyArgs, e \in EnvKeys}
    /\ cache = <<>>
    /\ llm_disabled = FALSE
    /\ remote_calls = [k \in Texts |-> 0]
    /\ returned = [k \in Texts |-> {}]
    /\ got429 = FALSE
    /\ last = NoCall
    /\ args = NoArgs
    /\ ret = NoResult
    /\ batch = NoBatch
    /\ threads = NoThreads

\* Variant: the text is stored also when the call ends by raising.
cache_after_always(c, key, hit, res) ==
    IF hit THEN c ELSE cache_put(c, key, res.text)

\* The cache after a call: the two writes (after the remote reply, after the
\* rule-based answer) are reached only when the answer was produced without
\* raising, and not on a cache hit.
cache_after(c, key, hit, res) ==
    IF ~hit /\ res.exc = "none" THEN cache_put(c, key, res.text) ELSE c

\* One complete generate_answer(q) call; outcome is what the remote service
\* would do with this call's request, should one be sent.  r is the result
\* of the remote path and rule_based that of the rule-based path, each used
\* only where the code runs that path.
answer_call(q, outcome, key, r, rule_based) ==
    LET hit == cache_hit(cache, key)
        tried == ~hit /\ remote_enabled(use_llm, llm_disabled, openrouter_api_key)
        remote_ok == tried /\ r.exc = "none"
        rate_limited == tried /\ r.exc # "none" /\ is_rate_limit(r)
        issued == tried /\ r.issued
        res == IF hit THEN Returned(cache[key])
               ELSE IF remote_ok THEN Returned(r.text)
               ELSE rule_based
    IN
    /\ cache' = cache_after(cache, key, hit, res)
    /\ llm_disabled' = IF rate_limited THEN TRUE ELSE llm_disabled
    /\ remote_calls' = IF issued
                       THEN [remote_calls EXCEPT ![NormOf[q]] = @ + 1]
                       ELSE remote_calls
    /\ returned' = IF res.exc = "none"
                   THEN [returned EXCEPT ![NormOf[q]] = @ \cup {res.text}]
                   ELSE returned
    /\ got429' = (got429 \/ (issued /\ outcome.status = RateLimitStatus))
    /\ last' = [q |-> q, hit |-> hit, tried |-> tried, issued |-> issued,
                remote |-> IF issued THEN outcome.kind
                           ELSE IF tried THEN r.exc ELSE "none",
                status |-> IF issued THEN outcome.status ELSE NoResponse,
                reply |-> IF issued THEN outcome.text ELSE "",
                result |-> IF res.exc = "none" THEN "returned" ELSE "raised",
                text |-> res.text,
                was_disabled |-> llm_disabled,
                after429 |-> got429,
                repeat |-> returned[NormOf[q]] # {},
                after_failure |-> OtherFailure(last)]
    /\ UNCHANGED <<data, use_llm, openrouter_api_key, args, ret>>

generate_answer(q, outcome) ==
    /\ answer_call(q, outcome, KeyOf[q], RemoteOf[<<data, q, outcome>>],
                   RuleBasedOf[<<data, q>>])
    /\ UNCHANGED <<batch, threads>>

Next == \E q \in Queries, outcome \in Outcomes : generate_answer(q, outcome)

Spec == Init /\ [][Next]_vars

-----------------------------------------------------------------------------
(* The methods called on their own: _parse_query, find_column, get_value,   *)
(* _format_answer, _generate_rule_based_answer, filter_by_year,             *)
(* _generate_openrouter_answer, generate_answer                             *)

\* The years 2019 to 2023, one row each.
DataFive ==
    [cols |-> <<"Year", "Revenue", "Net_Income">>,
     dtype |-> <<"int64", "float64", "float64">>,
     rows |-> << <<2019, 100000, 10000>>, <<2020, 200000, 30000>>,
                 <<2021, 150000, 10000>>, <<2022, 300000, 20000>>,
                 <<2023, 250000, 25000>> >>]

\* The greatest Revenue is held by two rows.
DataTie ==
    [cols |-> <<"Year", "Revenue", "Net_Income">>,
     dtype |-> <<"int64", "float64", "float64">>,
     rows |-> << <<2019, 300000, 10000>>, <<2020, 100000, 30000>>,
                 <<2021, 300000, 20000>> >>]

\* The temporal column is not the first column.
DataYearSecond ==
    [cols |-> <<"Revenue", "Year", "Net_Income">>,
     dtype |-> <<"float64", "int64", "float64">>,
     rows |-> << <<100000, 2019, 10000>>, <<200000, 2020, 30000>>,
                 <<150000, 2021, 20000>> >>]

\* Two columns equal to "revenue" ignoring case.
DataCase ==
    [cols |-> <<"Year", "REVENUE", "Revenue">>,
     dtype |-> <<"int64", "float64", "float64">>,
     rows |-> << <<2019, 1000, 100000>>, <<2020, 2000, 200000>> >>]

\* Six years up to 2024; Revenue ends where it began, Net_Income begins
\* at zero.
DataRecent ==
    [cols |-> <<"Year", "Revenue", "Net_Income">>,
     dtype |-> <<"int64", "int64", "int64">>,
     rows |-> << <<2019, 100000, 0>>, <<2020, 90000, 5000>>,
                 <<2021, 110000, 7000>>, <<2022, 120000, 6000>>,
                 <<2023, 130000, 8000>>, <<2024, 100000, 9000>> >>]

\* Two temporal columns, Date before Year, holding different years.
DataBoth ==
    [cols |-> <<"Date", "Year", "Revenue">>,
     dtype |-> <<"int64", "int64", "int64">>,
     rows |-> << <<2021, 2020, 200000>>, <<2022, 2021, 100000>> >>]

\* Two temporal columns, DATE before year, holding different years.
DataLower ==
    [cols |-> <<"DATE", "year", "Revenue">>,
     dtype |-> <<"int64", "int64", "int64">>,
     rows |-> << <<2020, 2021, 100000>>, <<2021, 2019, 200000>>,
                 <<2021, 2021, 300000>> >>]

Tables ==
    {DataUnique, DataDup, DataNoTemporal, DataFive, DataTie, DataYearSecond,
     DataCase, DataRecent, DataBoth, DataLower}

\* Query texts for _parse_query: every text of up to MaxTokens tokens.
MaxTokens == 3

ParseTokens ==
    {"revenue", "sales", "profit", "Profit", "assets", "expenses", "net",
     "income", "2020", "1999", "x", "_", Blank, "?"}

RECURSIVE TextsUpTo(_)
TextsUpTo(n) ==
    IF n = 0 THEN {<<>>}
    ELSE LET shorter == TextsUpTo(n - 1) IN
         shorter \cup {Append(t, tok) : t \in shorter, tok \in ParseTokens}

ParseTexts == TextsUpTo(MaxTokens)

Keywords ==
    {"Revenue", "revenue", "Net_Income", "net income", "Incomes", "Sales",
     "Operating_Expenses", "Total_Assets"}

Years == {2019, 2020, 2021, 2024}

AnswerTexts ==
    { <<"best", Blank, "year", Blank, "for", Blank, "revenue">>,
      <<"highest", Blank, "profit">>,
      <<"lowest", Blank, "revenue">>,
      <<"highest", Blank, "and", Blank, "lowest", Blank, "revenue">>,
      <<"lowest", Blank, "profit">>,
      <<"LOWEST", Blank, "revenue">>,
      <<"topline", Blank, "revenue">>,
      <<"revenue">>,
      <<"profit">>,
      <<"revenue", Blank, "2019">>,
      <<"revenue", Blank, "2020">>,
      <<"Revenue", Blank, "2021">>,
      <<"profit", Blank, "2020">>,
      <<"assets", Blank, "2020">>,
      <<"hello">> }

\* The values _format_answer is given for a metric and a year: what
\* get_value returns and, for a scalar, the Series holding that one cell.
ValuesOf(value) ==
    IF value.tag = "scalar" THEN {value, Series(<<value.v>>, value.dtype)}
    ELSE IF value.tag = "Series" THEN {value}
    ELSE {}

ParseArgs == {[NoArgs EXCEPT !.op = "_parse_query", !.q = q] : q \in ParseTexts}

FindArgs ==
    {[NoArgs EXCEPT !.op = "find_column", !.keyword = k] : k \in Keywords}

GetArgs ==
    {[NoArgs EXCEPT !.op = "get_value", !.keyword = k, !.year = y] :
        k \in Keywords, y \in Years \cup {NoYear}}

FormatArgs(d) ==
    UNION {{[NoArgs EXCEPT !.op = "_format_answer", !.metric = m, !.year = y,
                           !.value = v, !.q = q] :
                v \in ValuesOf(get_value(d, m, y)), q \in AnswerTexts} :
           m \in {"Revenue", "Net_Income"}, y \in Years \cup {NoYear}}

RuleArgs ==
    {[NoArgs EXCEPT !.op = "_generate_rule_based_answer", !.q = q] :
        q \in AnswerTexts}

FilterArgs ==
    {[NoArgs EXCEPT !.op = "filter_by_year", !.year = y] : y \in Years}

RemoteArgs ==
    {[NoArgs EXCEPT !.op = "_generate_openrouter_answer", !.q = q] :
        q \in AnswerTexts}

AskArgs ==
    {[NoArgs EXCEPT !.op = "generate_answer", !.q = q] : q \in AskTexts}

\* A table is loaded and one method is about to be called with arguments.
InitCall ==
    /\ data \in Tables
    /\ args \in ParseArgs \cup FindArgs \cup GetArgs \cup FormatArgs(data)
                 \cup RuleArgs \cup FilterArgs \cup RemoteArgs \cup AskArgs
    /\ use_llm \in IF args.op = "generate_answer" THEN BOOLEAN ELSE {FALSE}
    /\ openrouter_api_key \in IF args.op = "generate_answer"
                               THEN {None, "sk-or-key"} ELSE {None}
    /\ cache = <<>>
    /\ llm_disabled = FALSE
    /\ remote_calls = [k \in Texts |-> 0]
    /\ returned = [k \in Texts |-> {}]
    /\ got429 = FALSE
    /\ last = NoCall
    /\ ret = NoResult
    /\ batch = NoBatch
    /\ threads = NoThreads

Unused == <<data, use_llm, openrouter_api_key, cache, llm_disabled,
            remote_calls, returned, got429, last, args, batch, threads>>

call_parse_query ==
    /\ args.op = "_parse_query"
    /\ ~ret.done
    /\ ret' = [NoResult EXCEPT !.done = TRUE, !.parsed = parse_query(args.q)]
    /\ UNCHANGED Unused

call_find_column ==
    /\ args.op = "find_column"
    /\ ~ret.done
    /\ ret' = [NoResult EXCEPT !.done = TRUE,
                               !.column = find_column(data, args.keyword)]
    /\ UNCHANGED Unused

call_get_value ==
    /\ args.op = "get_value"
    /\ ~ret.done
    /\ ret' = [NoResult EXCEPT !.done = TRUE,
                               !.value = get_value(data, args.keyword, args.year)]
    /\ UNCHANGED Unused

call_format_answer ==
    /\ args.op = "_format_answer"
    /\ ~ret.done
    /\ ret' = [NoResult EXCEPT
                  !.done = TRUE,
                  !.answer = format_answer(data, args.metric, args.value,
                                           args.year, args.q)]
    /\ UNCHANGED Unused

call_generate_rule_based_answer ==
    /\ args.op = "_generate_rule_based_answer"
    /\ ~ret.done
    /\ ret' = [NoResult EXCEPT
                  !.done = TRUE,
                  !.answer = generate_rule_based_answer(data, args.q)]
    /\ UNCHANGED Unused

call_filter_by_year ==
    /\ args.op = "filter_by_year"
    /\ ~ret.done
    /\ ret' = [NoResult EXCEPT !.done = TRUE,
                               !.filtered = filter_by_year(data, args.year)]
    /\ UNCHANGED Unused

call_generate_openrouter_answer(outcome) ==
    /\ args.op = "_generate_openrouter_answer"
    /\ ~ret.done
    /\ ret' = [NoResult EXCEPT
                  !.done = TRUE,
                  !.remote = generate_openrouter_answer(data, args.q, outcome)]
    /\ UNCHANGED Unused

\* generate_answer called once on the QAChain just constructed.
call_generate_answer(outcome) ==
    /\ args.op = "generate_answer"
    /\ last = NoCall
    /\ answer_call(args.q, outcome, cache_key(args.q),
                   generate_openrouter_answer(data, args.q, outcome),
                   generate_rule_based_answer(data, args.q))
    /\ UNCHANGED <<batch, threads>>

NextCall ==
    \/ call_parse_query
    \/ call_find_column
    \/ call_get_value
    \/ call_format_answer
    \/ call_generate_rule_based_answer
    \/ call_filter_by_year
    \/ \E outcome \in Outcomes : call_generate_openrouter_answer(outcome)
    \/ \E outcome \in Outcomes : call_generate_answer(outcome)

Methods == InitCall /\ [][NextCall]_vars

-----------------------------------------------------------------------------
(* FinancialQABot.ask and ask_batch (app.py)                                *)

\* The questions of a batch: up to MaxBatch of these texts, repeats allowed.
MaxBatch == 3

BatchQueries ==
    { <<"revenue", Blank, "2020">>,
      <<Blank, "REVENUE", Blank, "2020", Blank>>,
      <<"hello">> }

RECURSIVE BatchesUpTo(_)
BatchesUpTo(n) ==
    IF n = 0 THEN {<<>>}
    ELSE LET shorter == BatchesUpTo(n - 1) IN
         shorter \cup {Append(b, q) : b \in shorter, q \in BatchQueries}

Batches == BatchesUpTo(MaxBatch)

\* str(e) of the exception generate_answer lets through: the ValueError of
\* filter_by_year, or that of pd.Series(values, index) for n values and an
\* index of m rows.
FilterError == "Cannot filter by year: No 'Year' column found in data"

LengthError(n, m) ==
    "Length of values (" \o ToString(n) \o ") does not match length of index ("
        \o ToString(m) \o ")"

str_error(d, q) ==
    IF year_col(d) = None THEN FilterError
    ELSE LengthError(Len(get_value(d, parse_metric(q), parse_year(q)).vals),
                     Len(d.rows))

ErrorOf == [x \in Datasets \X BatchQueries |-> str_error(x[1], x[2])]

\* The dictionaries ask returns; a key the dictionary lacks is "None".
NotLoaded ==
    [question |-> <<>>, answer |-> None, status |-> None,
     error |-> "Data not loaded. Call load_data() first."]

Success(question, answer) ==
    [question |-> question, answer |-> answer, status |-> "success",
     error |-> None]

Failure(message) ==
    [question |-> <<>>, answer |-> None, status |-> "error",
     error |-> message]

\* The dictionary for a generate_answer call that went as  call  records.
ask_result(question, call, message) ==
    IF call.result = "returned" THEN Success(question, call.text)
    ELSE Failure(message)

\* FinancialQABot after construction, or after load_data as well; ask_batch
\* is called with a list of questions.
InitBatch ==
    /\ data \in Datasets
    /\ use_llm \in BOOLEAN
    /\ openrouter_api_key \in {None, "sk-or-key"}
    /\ cache = <<>>
    /\ llm_disabled = FALSE
    /\ remote_calls = [k \in Texts |-> 0]
    /\ returned = [k \in Texts |-> {}]
    /\ got429 = FALSE
    /\ last = NoCall
    /\ args = NoArgs
    /\ ret = NoResult
    /\ batch \in [loaded : BOOLEAN, questions : Batches, results : {<<>>}]
    /\ threads = NoThreads

\* ask(question) without a QAChain: the error dictionary, nothing else.
ask_not_loaded ==
    /\ batch' = [batch EXCEPT !.results = Append(@, NotLoaded)]
    /\ UNCHANGED <<data, use_llm, openrouter_api_key, cache, llm_disabled,
                   remote_calls, returned, got429, last, args, ret, threads>>

\* ask(question) with a QAChain: generate_answer, its exception caught.
ask_loaded(question, outcome) ==
    /\ answer_call(question, outcome, KeyOf[question],
                   RemoteOf[<<data, question, outcome>>],
                   RuleBasedOf[<<data, question>>])
    /\ batch' = [batch EXCEPT
                    !.results = Append(@, ask_result(question, last',
                                                     ErrorOf[<<data, question>>]))]
    /\ UNCHANGED threads

ask(question, outcome) ==
    IF batch.loaded THEN ask_loaded(question, outcome) ELSE ask_not_loaded

\* One iteration of ask_batch's loop: the next question is asked and its
\* result appended.
ask_batch ==
    /\ Len(batch.results) < Len(batch.questions)
    /\ \E outcome \in Outcomes :
          ask(batch.questions[Len(batch.results) + 1], outcome)

NextBatch == ask_batch

Batch == InitBatch /\ [][NextBatch]_vars

-----------------------------------------------------------------------------
(* Two threads calling generate_answer on one QAChain                       *)
(* Each thread makes one call; a step is one statement of generate_answer   *)
(* (the remote call being one step), and the threads' steps interleave.    *)
(* With use_lock the caller holds one lock around the whole call.           *)

ThreadIds == {"A", "B"}

\* A thread's position and local variables: the query, the answer computed
\* so far, whether the exception caught was a rate limit; and, as history,
\* whether its request was sent when the flag was already set (late) or
\* when a 429 had already been received (after429).
ThreadAt(q) ==
    [pc |-> "start", q |-> q, answer |-> "", limited |-> FALSE,
     late |-> FALSE, after429 |-> FALSE, sent |-> FALSE, result |-> "none"]

InitThreads ==
    /\ data \in Datasets
    /\ use_llm \in BOOLEAN
    /\ openrouter_api_key \in {None, "sk-or-key"}
    /\ cache = <<>>
    /\ llm_disabled = FALSE
    /\ remote_calls = [k \in Texts |-> 0]
    /\ returned = [k \in Texts |-> {}]
    /\ got429 = FALSE
    /\ last = NoCall
    /\ args = NoArgs
    /\ ret = NoResult
    /\ batch = NoBatch
    /\ threads \in [use_lock : BOOLEAN, owner : {"nobody"},
                    th : [ThreadIds -> {ThreadAt(q) : q \in BatchQueries}]]

Untouched == <<data, use_llm, openrouter_api_key, returned, last, args, ret,
               batch>>

\* The caller's lock: taken before the call when use_lock, free otherwise.
may_enter(t) == threads.use_lock => threads.owner = "nobody"

owner_entered(t) == IF threads.use_lock THEN t ELSE threads.owner

owner_left(t) == IF threads.use_lock THEN "nobody" ELSE threads.owner

\* Thread t moves on with its record changed to rec.
moved(t, rec) == [threads EXCEPT !.th[t] = rec]

\* Thread t returns or raises: the call is over (and the lock released).
left(t, rec) == [threads EXCEPT !.th[t] = rec, !.owner = owner_left(t)]

\* The caller enters generate_answer.
t_enter(t) ==
    /\ threads.th[t].pc = "start"
    /\ may_enter(t)
    /\ threads' = [threads EXCEPT !.th[t].pc = "lookup",
                                  !.owner = owner_entered(t)]
    /\ UNCHANGED <<cache, llm_disabled, remote_calls, got429>>
    /\ UNCHANGED Untouched

\* cache_key = ...; if cache_key in self._cache: return self._cache[...]
t_lookup(t) ==
    /\ threads.th[t].pc = "lookup"
    /\ threads' =
          IF cache_hit(cache, KeyOf[threads.th[t].q])
          THEN left(t, [threads.th[t] EXCEPT
                           !.pc = "done", !.result = "returned",
                           !.answer = cache[KeyOf[threads.th[t].q]]])
          ELSE moved(t, [threads.th[t] EXCEPT !.pc = "guard"])
    /\ UNCHANGED <<cache, llm_disabled, remote_calls, got429>>
    /\ UNCHANGED Untouched

\* if self.use_llm and not self._llm_disabled and self.openrouter_api_key
t_guard(t) ==
    /\ threads.th[t].pc = "guard"
    /\ threads' =
          moved(t, [threads.th[t] EXCEPT
                       !.pc = IF remote_enabled(use_llm, llm_disabled,
                                                openrouter_api_key)
                              THEN "post" ELSE "rule"])
    /\ UNCHANGED <<cache, llm_disabled, remote_calls, got429>>
    /\ UNCHANGED Untouched

\* answer = self._generate_openrouter_answer(query), r being what it did.
t_posted(t, r, outcome) ==
    /\ threads' =
          moved(t, [threads.th[t] EXCEPT
                       !.pc = IF r.exc = "none" THEN "store_remote"
                              ELSE "except",
                       !.answer = r.text,
                       !.limited = (r.exc # "none" /\ is_rate_limit(r)),
                       !.sent = r.issued,
                       !.late = (r.issued /\ llm_disabled),
                       !.after429 = (r.issued /\ got429)])
    /\ remote_calls' = IF r.issued
                       THEN [remote_calls EXCEPT ![NormOf[threads.th[t].q]] = @ + 1]
                       ELSE remote_calls
    /\ got429' = (got429 \/ (r.issued /\ outcome.status = RateLimitStatus))
    /\ UNCHANGED <<cache, llm_disabled>>
    /\ UNCHANGED Untouched

t_post(t, outcome) ==
    /\ threads.th[t].pc = "post"
    /\ t_posted(t, RemoteOf[<<data, threads.th[t].q, outcome>>], outcome)

\* self._cache[cache_key] = answer; return answer   (after either path)
t_store(t) ==
    /\ threads.th[t].pc \in {"store_remote", "store_rule"}
    /\ cache' = cache_put(cache, KeyOf[threads.th[t].q], threads.th[t].answer)
    /\ threads' = left(t, [threads.th[t] EXCEPT !.pc = "done",
                                                !.result = "returned"])
    /\ UNCHANGED <<llm_disabled, remote_calls, got429>>
    /\ UNCHANGED Untouched

\* except Exception as e: a 429 sets the flag; then on to the rule-based path
t_except(t) ==
    /\ threads.th[t].pc = "except"
    /\ llm_disabled' = IF threads.th[t].limited THEN TRUE ELSE llm_disabled
    /\ threads' = moved(t, [threads.th[t] EXCEPT !.pc = "rule"])
    /\ UNCHANGED <<cache, remote_calls, got429>>
    /\ UNCHANGED Untouched

\* answer = self._generate_rule_based_answer(query), which may raise
t_ruled(t, rule_based) ==
    /\ threads' =
          IF rule_based.exc = "none"
          THEN moved(t, [threads.th[t] EXCEPT !.pc = "store_rule",
                                              !.answer = rule_based.text])
          ELSE left(t, [threads.th[t] EXCEPT !.pc = "done",
                                             !.result = "raised"])
    /\ UNCHANGED <<cache, llm_disabled, remote_calls, got429>>
    /\ UNCHANGED Untouched

t_rule(t) ==
    /\ threads.th[t].pc = "rule"
    /\ t_ruled(t, RuleBasedOf[<<data, threads.th[t].q>>])

NextThreads ==
    \E t \in ThreadIds :
        \/ t_enter(t)
        \/ t_lookup(t)
        \/ t_guard(t)
        \/ \E outcome \in Outcomes : t_post(t, outcome)
        \/ t_store(t)
        \/ t_except(t)
        \/ t_rule(t)

Threads == InitThreads /\ [][NextThreads]_vars

-----------------------------------------------------------------------------
(* Properties of generate_answer                                            *)

\* The rule-based answer of the latest call's query on the loaded table.
RuleText == RuleBasedOf[<<data, last.q>>].text

Called == last.result # "init"

\* C1: calls with the same strip().lower() form, made one after another:
\* once one of them has returned, every later one returns exactly that text
\* and sends no request; so each normalized text sees at most one returned
\* text and at most one remote request.
C1_RepeatReturnsCachedText ==
    /\ \A k \in Texts : Cardinality(returned[k]) <= 1 /\ remote_calls[k] <= 1
    /\ last.repeat =>
          /\ last.result = "returned"
          /\ ~last.issued
          /\ returned[Normalized(last.q)] = {last.text}

\* A repeat, written differently from its normalized form, that got back the
\* remote reply of the one request made for it.
C1_Witness ==
    /\ last.repeat
    /\ last.q # Normalized(last.q)
    /\ last.text \in Replies
    /\ remote_calls[Normalized(last.q)] = 1

\* C2: once a request has been answered with 429, no later call sends a
\* request.
C2_NoRequestAfter429 == last.after429 => ~last.issued

\* A call after the 429 whose key was not cached: it was answered locally.
C2_Witness ==
    /\ last.after429
    /\ ~last.hit
    /\ ~last.tried
    /\ last.result = "returned"

\* C3 as stated: after a 429 every call that returns gives the rule-based
\* text of its query, also for queries answered before the 429.
C3_AlwaysRuleBasedAfter429 ==
    (last.after429 /\ last.result = "returned") => last.text = RuleText

\* C3 amended: after a 429 a call that returns gives the rule-based text of
\* its query when its key was not cached before the call, and the cached
\* text (which may be a remote reply stored before the 429) when it was.
C3_RuleBasedUnlessCachedAfter429 ==
    (last.after429 /\ last.result = "returned") =>
        IF last.hit THEN cache[Normalized(last.q)] = last.text
        ELSE last.text = RuleText

\* After the 429, with a remote reply in the cache, a query not yet cached
\* got its rule-based answer.
C3_Witness ==
    /\ last.after429
    /\ ~last.hit
    /\ last.result = "returned"
    /\ last.text = RuleText
    /\ \E k \in DOMAIN cache : cache[k] \in Replies

\* C4: the flag starts false, goes from false to true only in a call whose
\* request was answered with 429, and never goes back to false.
C4_DisabledFlagLatches ==
    /\ ~llm_disabled
    /\ [][/\ llm_disabled => llm_disabled'
          /\ (~llm_disabled /\ llm_disabled') =>
                (last'.issued /\ last'.status = RateLimitStatus)]_vars

\* The flag is set and a further call has run with it set.
C4_Witness == llm_disabled /\ last.was_disabled /\ Called

\* Every year of the temporal column is held by one row only.
DistinctYears(d) ==
    \A i, j \in 1..Len(d.rows) :
        Column(d, get_columns(d)[1])[i] = Column(d, get_columns(d)[1])[j]
            => i = j

\* C5 as stated: a request that fails otherwise than with 429 is answered
\* with the rule-based text and leaves the flag false, and the next call
\* whose key is not cached sends a request.  (Stated for the tables whose
\* years are distinct, where no call fails over a year held by two rows.)
C5_NextCallSendsRequest ==
    DistinctYears(data) =>
        /\ OtherFailure(last) =>
              (last.result = "returned" /\ last.text = RuleText
               /\ ~llm_disabled)
        /\ (last.after_failure /\ ~last.hit) => last.issued

\* C5 amended: ... and the next call whose key is not cached takes the
\* remote path again: it sends a request unless building the request's data
\* context raises (no temporal column, or a year held by several rows).
C5_NextCallTriesRemote ==
    /\ OtherFailure(last) =>
          (last.result = "returned" /\ last.text = RuleText /\ ~llm_disabled)
    /\ (last.after_failure /\ ~last.hit) =>
          /\ last.tried
          /\ last.issued \/ last.remote \in {"ValueError", "TypeError"}

\* The call after a failed request sent a request of its own.
C5_Witness == last.after_failure /\ last.issued /\ last.remote = "reply"

\* C6: with use_llm false or no credential no request is ever sent and every
\* answer is the rule-based one; a request is sent only with use_llm true, a
\* credential present and the flag false.
C6_RemoteNeedsFlagAndCredential ==
    /\ (~use_llm \/ ~Truthy(openrouter_api_key)) =>
          /\ \A k \in Texts : remote_calls[k] = 0
          /\ last.result = "returned" => last.text = RuleText
    /\ last.issued =>
          (use_llm /\ Truthy(openrouter_api_key) /\ ~last.was_disabled)

\* use_llm is true but there is no credential, and a cached answer came back.
C6_Witness ==
    /\ use_llm
    /\ ~Truthy(openrouter_api_key)
    /\ last.hit
    /\ last.result = "returned"

\* C7: on a table with a temporal column and at least one row no call
\* raises.
C7_NeverRaisesWithTemporalColumn ==
    (year_col(data) # None /\ Len(data.rows) >= 1) => last.result # "raised"

\* C8: without a temporal column, a call whose query names a metric that
\* resolves to a column and a year raises; no request is sent, and where
\* the remote path was entered its failure was the same error, handled as
\* a generic one (the flag stays false).
C8_MissingTemporalColumnRaises ==
    (/\ Called
     /\ year_col(data) = None
     /\ parse_metric(last.q) # None
     /\ find_column(data, parse_metric(last.q)) # None
     /\ parse_year(last.q) # NoYear) =>
        /\ last.result = "raised"
        /\ ~last.issued
        /\ last.tried => (last.remote = "ValueError" /\ ~llm_disabled)

\* The error reached the caller after the remote path was entered.
C8_Witness ==
    /\ year_col(data) = None
    /\ last.result = "raised"
    /\ last.tried
    /\ last.remote = "ValueError"

\* C9: a key in the cache stays in it and keeps its text.
C9_CacheWriteOnce ==
    [][\A k \in DOMAIN cache : k \in DOMAIN cache' /\ cache'[k] = cache[k]]_vars

\* Several entries are cached and the latest call was served from the cache.
C9_Witness == Cardinality(DOMAIN cache) >= 2 /\ last.hit

\* C10: a call that returns leaves its text in the cache under the query's
\* normalized key; that text is the remote reply when the call's request
\* succeeded, and the rule-based answer when the call computed its answer
\* otherwise.
C10_CacheHoldsReturnedText ==
    last.result = "returned" =>
        /\ Normalized(last.q) \in DOMAIN cache
        /\ cache[Normalized(last.q)] = last.text
        /\ last.remote = "reply" => last.text = last.reply
        /\ (~last.hit /\ last.remote # "reply") => last.text = RuleText

\* A request failed with a malformed body and the rule-based answer was
\* cached and returned.
C10_Witness ==
    /\ last.remote = "malformed"
    /\ last.result = "returned"
    /\ cache[Normalized(last.q)] = RuleText

-----------------------------------------------------------------------------
(* Properties of the methods called on their own                            *)

\* The tokens made of four digits.
FourDigitTokens == {"2019", "2020", "2021", "1999"}

Parsed == ret.done /\ args.op = "_parse_query"

\* Token i is a year 20dd and the text has no other four-digit substring.
OnlyYearAt(q, i) ==
    /\ i \in 1..Len(q)
    /\ q[i] \in YearTokens
    /\ \A j \in 1..Len(q) : j # i => q[j] \notin FourDigitTokens

\* A word character stands directly before or directly after token i.
WordNeighbour(q, i) ==
    \/ (i > 1 /\ q[i - 1] \in WordTokens)
    \/ (i < Len(q) /\ q[i + 1] \in WordTokens)

HasWord(q, words) ==
    \E i \in 1..Len(q) : \E w \in words : w \in Contained(lower(q[i]))

\* q has "net income" or "net profit", ignoring case, as a substring.
HasNetPhrase(q) ==
    \E i \in 1..(Len(q) - 2) :
        /\ lower(q[i]) = "net"
        /\ q[i + 1] = Blank
        /\ lower(q[i + 2]) \in {"income", "profit"}

RevenueRule(q) == HasWord(q, {"revenue", "sales"})
NetIncomeRule(q) == HasNetPhrase(q) \/ HasWord(q, {"profit"})
ExpenseRule(q) == HasWord(q, {"expense"})
AssetRule(q) == HasWord(q, {"asset"})

\* C12: the metric is that of the earliest rule the text matches, in the
\* order revenue/sales, net income/net profit/profit, expense, asset, and
\* none when it matches no rule; a text with both "profit" and "asset" is
\* never Total_Assets, and is Net_Income unless the revenue rule matches.
C12_FirstMatchingRuleWins ==
    Parsed =>
        /\ RevenueRule(args.q) => ret.parsed.metric = "Revenue"
        /\ (~RevenueRule(args.q) /\ NetIncomeRule(args.q)) =>
              ret.parsed.metric = "Net_Income"
        /\ (~RevenueRule(args.q) /\ ~NetIncomeRule(args.q)
            /\ ExpenseRule(args.q)) =>
              ret.parsed.metric = "Operating_Expenses"
        /\ (~RevenueRule(args.q) /\ ~NetIncomeRule(args.q)
            /\ ~ExpenseRule(args.q) /\ AssetRule(args.q)) =>
              ret.parsed.metric = "Total_Assets"
        /\ (~RevenueRule(args.q) /\ ~NetIncomeRule(args.q)
            /\ ~ExpenseRule(args.q) /\ ~AssetRule(args.q)) =>
              ret.parsed.metric = None
        /\ (HasWord(args.q, {"profit"}) /\ AssetRule(args.q)) =>
              ret.parsed.metric # "Total_Assets"

\* A text naming assets first and profit (in capitals) after it was parsed
\* to Net_Income.
C12_Witness ==
    /\ Parsed
    /\ args.q = <<"assets", Blank, "Profit">>
    /\ ret.parsed.metric = "Net_Income"

GotValue == ret.done /\ args.op = "get_value"

\* The rows of d whose temporal key is year y.
MatchingRows(d, y) ==
    {r \in 1..Len(d.rows) : Column(d, year_col(d))[r] = y}

\* vals holds the cells of column c of exactly the rows in the set, in
\* dataset row order.
CellsInRowOrder(d, c, rows, vals) ==
    /\ Len(vals) = Cardinality(rows)
    /\ \E f \in [1..Len(vals) -> rows] :
          /\ \A i, j \in 1..Len(vals) : i < j => f[i] < f[j]
          /\ \A i \in 1..Len(vals) : vals[i] = Column(d, c)[f[i]]

\* C13: on a table with a temporal column, for a keyword that resolves to
\* a column c and a given year, get_value returns None when no row has the
\* year, the cell of c when one row has it, and the Series of the cells of
\* c of the matching rows in row order when several have it; a scalar is
\* returned only when exactly one row matches.
C13_ZeroOneManyRows ==
    (/\ GotValue
     /\ args.year # NoYear
     /\ year_col(data) # None
     /\ find_column(data, args.keyword) # None) =>
        LET c == find_column(data, args.keyword)
            rows == MatchingRows(data, args.year)
        IN  /\ rows = {} => ret.value.tag = "None"
            /\ Cardinality(rows) = 1 =>
                  /\ ret.value.tag = "scalar"
                  /\ \A r \in rows : ret.value.v = Column(data, c)[r]
            /\ Cardinality(rows) > 1 =>
                  /\ ret.value.tag = "Series"
                  /\ CellsInRowOrder(data, c, rows, ret.value.vals)
            /\ ret.value.tag = "scalar" => Cardinality(rows) = 1

\* Two rows hold the year asked for and both cells came back, in row order.
C13_Witness ==
    /\ GotValue
    /\ data = DataDup
    /\ args.year = 2020
    /\ ret.value.tag = "Series"
    /\ ret.value.vals = <<100000, 120000>>

\* C14: with the remote path disabled, a generate_answer call whose query
\* names a resolvable metric and a year held by more than one row returns
\* a sentence and raises nothing.
C14_DuplicateYearReturnsSentence ==
    (/\ Called
     /\ ~use_llm
     /\ year_col(data) # None
     /\ parse_metric(last.q) # None
     /\ find_column(data, parse_metric(last.q)) # None
     /\ Cardinality(MatchingRows(data, parse_year(last.q))) > 1) =>
        last.result = "returned"

Formatted == ret.done /\ args.op = "_format_answer"

\* C15: _format_answer on the one-element Series holding the cell of the
\* single row matched by the year filter gives the same sentence as
\* _format_answer on that cell, for the same metric, year and query text.
C15_OneElementSeriesAsScalar ==
    (/\ Formatted
     /\ args.year # NoYear
     /\ args.value.tag = "Series"
     /\ Len(args.value.vals) = 1) =>
        ret.answer = format_answer(data, args.metric,
                                   Scalar(args.value.vals[1], args.value.dtype),
                                   args.year, args.q)

Answered == ret.done /\ args.op = "_generate_rule_based_answer"

\* The temporal keys of the rows of d whose cell of column c equals m, in
\* row order.
TemporalKeysOf(d, c, m) ==
    LET rows == SelectSeq([r \in 1..Len(d.rows) |-> r],
                          LAMBDA r : Column(d, c)[r] = m)
    IN  [k \in 1..Len(rows) |-> ToString(Column(d, year_col(d))[rows[k]])]

BestSentence(display, keys, m) ==
    "The best year(s) for " \o display \o " was " \o Join(", ", keys)
        \o " with " \o Money0(m) \o "."

\* C16: for a query with a resolved metric, no year and a best-keyword,
\* the rule-based answer reports the maximum of the metric's column and
\* the temporal keys of all rows holding it, comma-joined in row order; on
\* the 2019..2023 table "best year for revenue" reports 2022 and $300,000.
C16_BestYearReportsTemporalKeys ==
    (/\ Answered
     /\ year_col(data) # None
     /\ parse_metric(args.q) # None
     /\ find_column(data, parse_metric(args.q)) # None
     /\ parse_year(args.q) = NoYear
     /\ AnyIn(BestWords, lowerText(args.q))) =>
        LET c == find_column(data, parse_metric(args.q))
            m == SeqMax(Column(data, c))
        IN  /\ ret.answer =
                  Returned(BestSentence(metric_display(parse_metric(args.q)),
                                        TemporalKeysOf(data, c, m), m))
            /\ (/\ data = DataFive
                /\ args.q = <<"best", Blank, "year", Blank, "for", Blank,
                              "revenue">>) =>
                  ret.answer.text =
                      "The best year(s) for Revenue was 2022 with $300,000."

NotFoundSentence(metric, year) ==
    "I couldn't find data for " \o metric \o " in " \o ToString(year) \o "."

\* The latest generate_answer call named a resolvable metric and a year
\* that no row of the table (which has a temporal column) holds.
AskedMissingYear ==
    /\ Called
    /\ year_col(data) # None
    /\ parse_metric(last.q) # None
    /\ find_column(data, parse_metric(last.q)) # None
    /\ parse_year(last.q) # NoYear
    /\ MatchingRows(data, parse_year(last.q)) = {}

\* C17 as stated: such a call returns "I couldn't find data for <metric>
\* in <year>." and raises nothing.
C17_MissingYearSentence ==
    AskedMissingYear =>
        /\ last.result = "returned"
        /\ last.text = NotFoundSentence(parse_metric(last.q),
                                        parse_year(last.q))

\* C17 amended: such a call raises nothing and returns that sentence unless
\* the remote path answers: the remote reply when the call's own request
\* succeeds, and the cached text (that sentence or an earlier remote reply)
\* when the query's key is already cached.
C17_MissingYearSentenceUnlessRemote ==
    AskedMissingYear =>
        /\ last.result = "returned"
        /\ IF last.remote = "reply" THEN last.text = last.reply
           ELSE IF last.hit
           THEN last.text \in {NotFoundSentence(parse_metric(last.q),
                                                parse_year(last.q))}
                                  \cup Replies
           ELSE last.text = NotFoundSentence(parse_metric(last.q),
                                             parse_year(last.q))

\* The request for a year without a row timed out and the call returned
\* the sentence.
C17_Witness ==
    /\ AskedMissingYear
    /\ last.remote = "timeout"
    /\ last.text = "I couldn't find data for Revenue in 2021."

\* C18 as stated: when the parser finds no metric, generate_answer returns
\* the guidance sentence and raises nothing.
C18_NoMetricGuidance ==
    (Called /\ parse_metric(last.q) = None) =>
        (last.result = "returned" /\ last.text = Guidance)

\* C18 amended: when the parser finds no metric, generate_answer raises
\* nothing and returns the guidance sentence unless the remote path
\* answers: the remote reply when the call's own request succeeds, and the
\* cached text (the guidance sentence or an earlier remote reply) when the
\* query's key is already cached.
C18_NoMetricGuidanceUnlessRemote ==
    (Called /\ parse_metric(last.q) = None) =>
        /\ last.result = "returned"
        /\ IF last.remote = "reply" THEN last.text = last.reply
           ELSE IF last.hit THEN last.text \in {Guidance} \cup Replies
           ELSE last.text = Guidance

\* A query without a metric was sent to the remote service, which answered
\* with status 500, and the guidance sentence was returned.
C18_Witness ==
    /\ Called
    /\ parse_metric(last.q) = None
    /\ last.issued
    /\ last.status = 500
    /\ last.text = Guidance

Found == ret.done /\ args.op = "find_column"

\* The positions of the columns equal to keyword k ignoring case.
EqualIgnoringCase(cols, k) ==
    {i \in 1..Len(cols) : lower(cols[i]) = lower(k)}

\* The columns whose similarity to keyword k is at least 0.6.
Similar(cols, k) ==
    {cols[i] : i \in {j \in 1..Len(cols) : Ratio(cols[j], k) >= 600}}

\* C19: find_column returns the first column equal to the keyword ignoring
\* case when there is one, whatever the similarities; otherwise a column
\* whose similarity is at least 0.6 when there is one, and None when there
\* is none.  "net income" over Year, Revenue, Net_Income gives Net_Income.
C19_ExactThenFuzzy ==
    Found =>
        /\ EqualIgnoringCase(data.cols, args.keyword) # {} =>
              \E i \in EqualIgnoringCase(data.cols, args.keyword) :
                  /\ ret.column = data.cols[i]
                  /\ \A j \in EqualIgnoringCase(data.cols, args.keyword) : i <= j
        /\ EqualIgnoringCase(data.cols, args.keyword) = {} =>
              IF Similar(data.cols, args.keyword) = {} THEN ret.column = None
              ELSE ret.column \in Similar(data.cols, args.keyword)
        /\ (data.cols = <<"Year", "Revenue", "Net_Income">>
            /\ args.keyword = "net income") => ret.column = "Net_Income"

\* "net income" was resolved over Year, Revenue, Net_Income.
C19_Witness ==
    /\ Found
    /\ data.cols = <<"Year", "Revenue", "Net_Income">>
    /\ args.keyword = "net income"
    /\ ret.column = "Net_Income"

\* C20: when the year filter matches exactly one row, the rule-based
\* answer is "The <metric, spaces for underscores> in <year> was $<cell,
\* thousands-grouped, no decimals>.", whether the column holds integers or
\* floats.
C20_ScalarSentenceForEveryDtype ==
    (/\ Answered
     /\ year_col(data) # None
     /\ parse_metric(args.q) # None
     /\ find_column(data, parse_metric(args.q)) # None
     /\ parse_year(args.q) # NoYear
     /\ Cardinality(MatchingRows(data, parse_year(args.q))) = 1) =>
        \A r \in MatchingRows(data, parse_year(args.q)) :
            ret.answer =
                Returned("The " \o metric_display(parse_metric(args.q))
                         \o " in " \o ToString(parse_year(args.q)) \o " was "
                         \o Money0(Column(data,
                                find_column(data, parse_metric(args.q)))[r])
                         \o ".")

-----------------------------------------------------------------------------
(* Properties of ask_batch                                                  *)

\* C21: ask_batch asks the questions one after another in input order, each
\* call's cache write done before the next call: the results so far are
\* those of the first questions of the list, in order; a successful result
\* is in the cache under its question's normalized key; a question with the
\* normalized key of an earlier one of the batch gets the earlier one's
\* result (answer, status, error) and sends no request, so no normalized
\* text sees more than one request.
C21_BatchSequentialRepeatsCached ==
    /\ Len(batch.results) <= Len(batch.questions)
    /\ \A i \in 1..Len(batch.results) :
          batch.results[i].status = "success" =>
              /\ batch.results[i].question = batch.questions[i]
              /\ Normalized(batch.questions[i]) \in DOMAIN cache
              /\ cache[Normalized(batch.questions[i])] = batch.results[i].answer
    /\ \A i, j \in 1..Len(batch.results) :
          (i < j /\ Normalized(batch.questions[i]) = Normalized(batch.questions[j]))
              => /\ batch.results[j].answer = batch.results[i].answer
                 /\ batch.results[j].status = batch.results[i].status
                 /\ batch.results[j].error = batch.results[i].error
    /\ \A k \in Texts : remote_calls[k] <= 1
    /\ (batch.results # <<>> /\ batch.loaded /\ last.repeat) => ~last.issued

\* A batch of three: the first question got a remote reply, the third is
\* the first written differently and got the same text without a request.
C21_Witness ==
    /\ Len(batch.results) = 3
    /\ batch.questions[1] = <<"revenue", Blank, "2020">>
    /\ batch.questions[3] = <<Blank, "REVENUE", Blank, "2020", Blank>>
    /\ batch.results[1].answer \in Replies
    /\ batch.results[3].answer = batch.results[1].answer
    /\ remote_calls[<<"revenue", Blank, "2020">>] = 1

-----------------------------------------------------------------------------
(* Properties of two threads in generate_answer                              *)

\* C22: when every generate_answer call runs inside one mutual-exclusion
\* scope, no request is sent once a 429 has been received (so none after the
\* flag was set), and no normalized key sees more than one request.
C22_LockedCallsKeepGuarantees ==
    threads.use_lock =>
        /\ \A t \in DOMAIN threads.th :
              ~threads.th[t].late /\ ~threads.th[t].after429
        /\ \A k \in Texts : remote_calls[k] <= 1

\* Without the lock: thread B sent its request when the flag was already
\* set by thread A's 429, and both sent a request for the same key.
C22_Witness ==
    /\ ~threads.use_lock
    /\ DOMAIN threads.th = ThreadIds
    /\ threads.th["A"].limited /\ threads.th["A"].sent
    /\ threads.th["B"].late
    /\ NormOf[threads.th["A"].q] = NormOf[threads.th["B"].q]
    /\ remote_calls[NormOf[threads.th["A"].q]] = 2

-----------------------------------------------------------------------------
(* Properties of the context, the temporal column and the series answers   *)

AskedRemote == ret.done /\ args.op = "_generate_openrouter_answer"

\* The years held by the temporal column of d.
YearsHeld(d) == {Column(d, year_col(d))[r] : r \in 1..Len(d.rows)}

\* The (up to n) most recent of a set of years.
MostRecent(years, n) ==
    {y \in years : Cardinality({z \in years : z > y}) < n}

\* The orderings of a finite set.
Orderings(S) ==
    {o \in [1..Cardinality(S) -> S] : \A i, j \in DOMAIN o : o[i] = o[j] => i = j}

\* The "metric in year: value" line of the one row of d holding year y.
YearLine(d, metric, y) ==
    LET r == CHOOSE r \in MatchingRows(d, y) : TRUE
        c == find_column(d, metric)
    IN  metric \o " in " \o ToString(y) \o ": "
            \o Money(Column(d, c)[r], DType(d, c))

\* text is made of exactly the lines of the years in the set, in some order,
\* each line ended by a newline (the last one possibly not).
IsLinesOf(text, d, metric, years) ==
    \E o \in Orderings(years) :
        LET lines == [i \in DOMAIN o |-> YearLine(d, metric, o[i])] IN
        text \in {Join("\n", lines), Join("\n", lines) \o "\n"}

\* C23 as stated (for the tables with a temporal column holding each year
\* once, and a metric that resolves to a column): with a metric and no year
\* the context has one line for each of the up to five most recent years of
\* the dataset; with a metric and a year that has data it is that year's
\* line.
C23_ContextCoversRecentYears ==
    (/\ AskedRemote
     /\ year_col(data) # None
     /\ \A y \in YearsHeld(data) : Cardinality(MatchingRows(data, y)) = 1
     /\ parse_metric(args.q) # None
     /\ find_column(data, parse_metric(args.q)) # None)
        => /\ ret.remote.exc \in {"none", "HTTPError", "timeout", "transport",
                                  "malformed"}
           /\ parse_year(args.q) = NoYear =>
                 IsLinesOf(ret.remote.context, data, parse_metric(args.q),
                           MostRecent(YearsHeld(data), 5))
           /\ (parse_year(args.q) # NoYear
                  /\ parse_year(args.q) \in YearsHeld(data)) =>
                 ret.remote.context =
                     YearLine(data, parse_metric(args.q), parse_year(args.q))

\* The call is _generate_rule_based_answer for a query that names a metric
\* and no year, on a table where the metric resolves to a column.
AskedSeries ==
    /\ Answered
    /\ parse_metric(args.q) # None
    /\ parse_year(args.q) = NoYear
    /\ find_column(data, parse_metric(args.q)) # None

\* The values of the metric's column, in row order.
MetricValues == Column(data, find_column(data, parse_metric(args.q)))

\* C24 as stated: the keys of a series answer (best, worst, trend listing)
\* are the values of the temporal column filter_by_year selects, row by row,
\* wherever that column stands among the columns.
C24_SeriesKeysFromTemporalColumn ==
    (AskedSeries /\ year_col(data) # None) =>
        ret.answer =
            series_answer(metric_display(parse_metric(args.q)), MetricValues,
                          Column(data, year_col(data)),
                          DType(data, year_col(data)), lowerText(args.q))

\* The trend summary with a given direction word and percentage text, the
\* listing showing the last min(5, n) rows in row order (labelled, as the
\* code labels them, by the first column).
TrendSentence(direction, pct) ==
    LET first_col == get_columns(data)[1]
        lines == [i \in 1..Len(MetricValues) |->
                     Str(Column(data, first_col)[i], DType(data, first_col))
                         \o ": " \o Money0(MetricValues[i])]
        n == Len(lines)
        shown == IF n <= 5 THEN lines ELSE SubSeq(lines, n - 4, n)
    IN  metric_display(parse_metric(args.q)) \o " " \o direction \o " by "
            \o pct \o "% from " \o Money0(MetricValues[1]) \o " to "
            \o Money0(MetricValues[Len(MetricValues)]) \o ".\n"
            \o "      Recent values:\n      " \o Join("\n      ", shown)

\* The percentage texts 0.0 to 200.0.
PctTexts == {PctText(t) : t \in 0..2000}

\* The call gives the default trend summary of an integer column.
AskedIntegerTrend ==
    /\ AskedSeries
    /\ ~AnyIn(BestWords \cup WorstWords, lowerText(args.q))
    /\ DType(data, find_column(data, parse_metric(args.q))) = "int64"
    /\ MetricValues # <<>>

\* C25 as stated: the sentence says increased exactly when the last value
\* is greater than the first and decreased exactly when it is less; an
\* unchanged series or a first value of zero is not reported as a decrease;
\* the listing shows the last min(5, n) rows in row order.
C25_TrendDirectionFollowsValues ==
    AskedIntegerTrend =>
        LET first_val == MetricValues[1]
            last_val == MetricValues[Len(MetricValues)]
        IN  /\ ret.answer.exc = "none"
            /\ (last_val > first_val /\ first_val # 0) =>
                  ret.answer.text =
                      TrendSentence("increased",
                                    PctText(PctTenths(first_val, last_val)))
            /\ (last_val < first_val /\ first_val # 0) =>
                  ret.answer.text =
                      TrendSentence("decreased",
                                    PctText(PctTenths(first_val, last_val)))
            /\ (last_val > first_val /\ first_val = 0) =>
                  \E p \in PctTexts :
                      ret.answer.text = TrendSentence("increased", p)
            /\ (last_val = first_val \/ first_val = 0) =>
                  \A p \in PctTexts :
                      ret.answer.text # TrendSentence("decreased", p)

Filtered == ret.done /\ args.op = "filter_by_year"

\* The candidate names, in priority order, that are columns of d.
Candidates(d) ==
    SelectSeq(<<"Year", "year", "DATE", "Date">>,
              LAMBDA c : \E i \in 1..Len(d.cols) : d.cols[i] = c)

\* rows lists, in increasing order, exactly the rows of d whose cell of
\* column c is y.
RowsWhere(rows, d, c, y) ==
    /\ \A i, j \in 1..Len(rows) : i < j => rows[i] < rows[j]
    /\ {rows[i] : i \in 1..Len(rows)}
           = {r \in 1..Len(d.rows) : d.rows[r][IndexOf(d.cols, c)] = y}

\* C26: filter_by_year filters on the first of Year, year, DATE, Date that
\* is a column and raises the missing-temporal-column error only when none
\* is; get_value without a year returns the whole resolved column as a
\* series in row order, temporal column or not.
C26_TemporalColumnPriority ==
    /\ Filtered =>
          IF Candidates(data) = <<>>
          THEN ret.filtered.exc = "ValueError"
          ELSE /\ ret.filtered.exc = "none"
               /\ RowsWhere(ret.filtered.rows, data, Head(Candidates(data)),
                            args.year)
    /\ (GotValue /\ args.year = NoYear
            /\ find_column(data, args.keyword) # None) =>
          /\ ret.value.tag = "Series"
          /\ ret.value.vals
                 = [r \in 1..Len(data.rows) |->
                       data.rows[r][IndexOf(data.cols,
                                            find_column(data, args.keyword))]]

\* A table with both Date and Year, Date first: the rows of 2021 are those
\* whose Year is 2021, not those whose Date is 2021.
C26_Witness ==
    /\ Filtered
    /\ data.cols = <<"Date", "Year", "Revenue">>
    /\ args.year = 2021
    /\ ret.filtered.rows = <<2>>

\* Some token of the lower-cased query contains one of the words.
Mentions(words, q) ==
    \E i \in 1..Len(q) : \E w \in words : w \in Contained(lower(q[i]))

\* The labels (first-column cells, as the code labels the series) of the
\* rows whose metric value is m, in row order.
LabelsOf(m) ==
    LET first_col == get_columns(data)[1]
        rows == SelectSeq([r \in 1..Len(MetricValues) |-> r],
                          LAMBDA r : MetricValues[r] = m)
    IN  [k \in 1..Len(rows) |->
            Str(Column(data, first_col)[rows[k]], DType(data, first_col))]

ExtremeSentence(word, m) ==
    "The " \o word \o " year(s) for " \o metric_display(parse_metric(args.q))
        \o " was " \o Join(", ", LabelsOf(m)) \o " with " \o Money0(m) \o "."

\* C29: for a series, a query mentioning a best-keyword (whether or not it
\* also mentions a worst-keyword) gets the best-year sentence over the
\* maximum; one mentioning only a worst-keyword gets the worst-year
\* sentence over the minimum with every tied key; one mentioning neither
\* gets the trend summary.  A keyword is mentioned when it is a substring
\* of the lower-cased query.
C29_BestBeforeWorst ==
    (AskedSeries /\ MetricValues # <<>>) =>
        LET cells == {MetricValues[i] : i \in 1..Len(MetricValues)}
            max_val == CHOOSE m \in cells : \A v \in cells : v <= m
            min_val == CHOOSE m \in cells : \A v \in cells : m <= v
            first_val == MetricValues[1]
            last_val == MetricValues[Len(MetricValues)]
        IN  IF Mentions({"best", "highest", "maximum", "peak", "most", "top"},
                        args.q)
            THEN ret.answer = Returned(ExtremeSentence("best", max_val))
            ELSE IF Mentions({"worst", "lowest", "minimum", "least", "bottom"},
                             args.q)
            THEN ret.answer = Returned(ExtremeSentence("worst", min_val))
            ELSE \E direction \in {"increased", "decreased"} :
                    ret.answer =
                        Returned(TrendSentence(
                            direction, PctText(PctTenths(first_val, last_val))))

\* "highest and lowest revenue" on the 2019..2023 table got the best-year
\* sentence.
C29_Witness ==
    /\ Answered
    /\ args.q = <<"highest", Blank, "and", Blank, "lowest", Blank, "revenue">>
    /\ data = DataFive
    /\ ret.answer.text = "The best year(s) for Revenue was 2022 with $300,000."

Asked == args.op = "generate_answer" /\ last.result # "init"

\* The call is generate_answer for a query whose metric resolves to no
\* column of the table.
AskedUnresolved ==
    /\ Asked
    /\ parse_metric(args.q) # None
    /\ find_column(data, parse_metric(args.q)) = None

\* "I couldn't find data for <metric>[ in <year>]."
CouldNotFind(metric, year) ==
    IF year = NoYear THEN "I couldn't find data for " \o metric \o "."
    ELSE NotFoundSentence(metric, year)

\* get_value with a keyword that resolves to no column returns None for
\* every year argument, on every table.
UnresolvedGivesNone ==
    (GotValue /\ find_column(data, args.keyword) = None) =>
        ret.value.tag = "None"

\* C30 as stated: get_value with an unresolved keyword returns None, never
\* the missing-temporal-column error, and generate_answer then returns the
\* could-not-find-data sentence.
C30_UnresolvedColumnReported ==
    /\ UnresolvedGivesNone
    /\ AskedUnresolved =>
          /\ last.result = "returned"
          /\ last.text = CouldNotFind(parse_metric(args.q), parse_year(args.q))

\* C30, amended: as above, except that generate_answer returns the remote
\* reply when its own remote request succeeds; it raises in no case.
C30_UnresolvedColumnReportedUnlessRemote ==
    /\ UnresolvedGivesNone
    /\ AskedUnresolved =>
          /\ last.result = "returned"
          /\ IF last.issued /\ last.remote = "reply"
             THEN last.text = last.reply
             ELSE last.text = CouldNotFind(parse_metric(args.q),
                                           parse_year(args.q))
          /\ last.issued => remote_enabled(use_llm, FALSE, openrouter_api_key)

\* On the table without a temporal column, "assets 2020" with the remote
\* path off got the sentence.
C30_Witness ==
    /\ AskedUnresolved
    /\ year_col(data) = None
    /\ ~remote_enabled(use_llm, llm_disabled, openrouter_api_key)
    /\ last.text = "I couldn't find data for Total_Assets in 2020."

-----------------------------------------------------------------------------
(* Properties of generate_answer: the cache and the rule-based path         *)

\* The remote path is off from construction on.
RemoteOff == ~use_llm \/ ~Truthy(openrouter_api_key)

\* C27: with the remote path off, every call of every sequence ends as
\* _generate_rule_based_answer would on the same table for the same query
\* (the same text, or raising when it raises), cached or not; and two
\* queries with the same strip().lower() form have the same rule-based
\* outcome.
C27_CacheTransparentWithoutRemote ==
    /\ (RemoteOff /\ Called) =>
          /\ ~last.tried /\ ~last.issued
          /\ IF RuleBasedOf[<<data, last.q>>].exc = "none"
             THEN last.result = "returned" /\ last.text = RuleText
             ELSE last.result = "raised"
    /\ \A q1, q2 \in Queries :
          Normalized(q1) = Normalized(q2) =>
              RuleBasedOf[<<data, q1>>] = RuleBasedOf[<<data, q2>>]

\* The remote path is off and " REVENUE 2020 " was answered from the cache
\* with the rule-based text.
C27_Witness ==
    /\ RemoteOff
    /\ last.hit
    /\ last.q = <<Blank, "REVENUE", Blank, "2020", Blank>>
    /\ last.result = "returned"
    /\ last.text = RuleText

\* C28: a call that ends by raising leaves the cache exactly as it was, and
\* the cache has no entry for the query's key, so the same query finds no
\* cached text and, both paths raising again whatever the service would
\* do, raises again.
C28_RaisingCallWritesNothing ==
    /\ [](last.result = "raised" =>
             /\ KeyOf[last.q] \notin DOMAIN cache
             /\ RuleBasedOf[<<data, last.q>>].exc # "none"
             /\ \A outcome \in Outcomes :
                   RemoteOf[<<data, last.q, outcome>>].exc # "none")
    /\ [][last'.result = "raised" => cache' = cache]_vars

\* A call raised for the missing temporal column after another query had
\* been answered and cached.
C28_Witness ==
    /\ last.result = "raised"
    /\ year_col(data) = None
    /\ cache # <<>>
    /\ KeyOf[last.q] \notin DOMAIN cache

====
